---------------------------- MODULE Spec2Model ----------------------------
(***************************************************************************)
(* Drawing Guides MCP server (src/main.py): the tool dispatcher, the       *)
(* search collector, the guide extractor and the response formatter.       *)
(*                                                                         *)
(* Conventions of the model                                                *)
(*  - A Python str is the sequence of its pieces.  Texts whose letters or  *)
(*    length matter (titles, queries, list items) are split into single    *)
(*    characters; fixed messages are one piece.                            *)
(*  - An optional value (None or a value) is a sequence of length 0 or 1.  *)
(*  - A URL is the sequence of its parts (scheme, host, path ...), so that *)
(*    the substring test of handle_get_guide is a test on parts.           *)
(*  - A function that may raise returns a record whose field exc is ""     *)
(*    when it returned normally and the exception otherwise.               *)
(*  - The web is the environment: every reply a call receives is an input  *)
(*    of the action and is recorded in the variable web.                   *)
(***************************************************************************)
EXTENDS Integers, Sequences, FiniteSets, TLC

VARIABLES
    pc,            \* "idle": awaiting a tool call; "done": a call was handled
    name,          \* tool name of the handled call
    arguments,     \* its argument dict (a record; absent keys are absent)
    web,           \* what the site replied during the call
    fetched,       \* URLs passed to make_request during the call, in order
    easy_results,  \* return value of search_easy_drawing_guides
    all_guides,    \* handle_search's list after the sort and the slice
    guide_content, \* return value of get_drawing_guide_content
    results,       \* the list of TextContent blocks returned
    raised         \* exception leaving handle_call_tool ("" if none)

vars == <<pc, name, arguments, web, fetched, easy_results, all_guides,
          guide_content, results, raised>>

---------------------------------------------------------------------------
(* Bounds of the model *)

MaxArticles == 3
MaxLimit == 3
MaxItems == 3
MaxStepDivs == 2
MaxImgs == 6

(* Program constants *)

HTTP_OK == 200
DefaultLimit == 10
SchemaMinLimit == 1
SchemaMaxLimit == 20
MinStepLen == 10
MaxImages == 5

---------------------------------------------------------------------------
(* Strings *)

Min(a, b) == IF a < b THEN a ELSE b

Take(s, n) == SubSeq(s, 1, Min(n, Len(s)))

Reverse(s) == [i \in 1..Len(s) |-> s[Len(s) + 1 - i]]

Rep(ch, n) == [i \in 1..n |-> ch]

IsSpace(ch) == ch \in {" ", "\n", "\t"}

RECURSIVE LStrip(_)
LStrip(s) == IF s # <<>> /\ IsSpace(Head(s)) THEN LStrip(Tail(s)) ELSE s

\* str.strip(): leading and trailing whitespace removed
Strip(s) == Reverse(LStrip(Reverse(LStrip(s))))

LowerChar(ch) ==
    CASE ch = "C" -> "c"
      [] ch = "A" -> "a"
      [] ch = "T" -> "t"
      [] ch = "O" -> "o"
      [] ch = "W" -> "w"
      [] OTHER -> ch

\* str.lower()
Lower(s) == [i \in 1..Len(s) |-> LowerChar(s[i])]

\* needle in hay (Python substring test)
Contains(needle, hay) ==
    \E i \in 0..(Len(hay) - Len(needle)) :
        SubSeq(hay, i + 1, i + Len(needle)) = needle

---------------------------------------------------------------------------
(* URLs and the fetcher *)

Host == <<"easydrawingguides.com">>

EASY_DRAWING_GUIDES_BASE == <<"https://">> \o Host

IsAbsolute(ref) == ref # <<>> /\ Head(ref) \in {"https://", "http://"}

\* urllib.parse.urljoin for the references the pages hold: an absolute
\* reference stands, a rooted path replaces the base's path, and a reference
\* with a malformed authority raises ValueError.
urljoin(base, ref) ==
    IF ref # <<>> /\ Head(ref) = "//[" THEN [exc |-> "ValueError", url |-> <<>>]
    ELSE IF IsAbsolute(ref) THEN [exc |-> "", url |-> ref]
    ELSE [exc |-> "", url |-> SubSeq(base, 1, Min(2, Len(base))) \o ref]

\* requests.get + raise_for_status: a transport failure (status 0 here) and a
\* 4xx/5xx status raise, any other reply is returned.
make_request(url, reply) ==
    IF reply.status = 0 \/ reply.status >= 400
    THEN [exc |-> "RequestException", status |-> reply.status, page |-> reply.page]
    ELSE [exc |-> "", status |-> reply.status, page |-> reply.page]

search_url(query) == EASY_DRAWING_GUIDES_BASE \o <<"/?s=">> \o query

---------------------------------------------------------------------------
(* The search page (the environment of search) *)

\* An anchor of the search page: its href (<<>>: no or empty href), its text
\* and the status the site answers when the href is fetched (0: no answer).
Link(href, text, status) == [href |-> href, text |-> text, status |-> status]

\* A result container: its first h2 descendant if any (with the h2's first
\* anchor if any) and its own first anchor descendant if any.
WithH2(link) == [h2 |-> <<[a |-> link]>>, a |-> link]

NoLink == SubSeq(<<Link(<<>>, <<>>, 0)>>, 1, 0)

ArticlePool ==
    { WithH2(<<Link(<<"/cat/">>, <<"C", "a", "t">>, 200)>>),
      WithH2(<<Link(<<"https://", "easydrawingguides.com", "/cats/">>,
                    <<"c", "a", "t", "s">>, 200)>>),
      WithH2(<<Link(<<"/owl/">>, <<" ", "O", "w", "l">>, 200)>>),
      WithH2(<<Link(<<"/gone/">>, <<"C", "a", "t">>, 404)>>),
      WithH2(<<Link(<<"/moved/">>, <<"O", "w", "l">>, 204)>>),
      WithH2(<<Link(<<"//[">>, <<"O", "w", "l">>, 200)>>),
      \* a thumbnail anchor: an image and white space, no heading
      [h2 |-> <<>>, a |-> <<Link(<<"/thumb/">>, <<" ">>, 200)>>],
      \* a heading without an anchor, a "read more" anchor beside it
      [h2 |-> <<[a |-> NoLink]>>, a |-> <<Link(<<"/more/">>, <<"O", "w", "l">>, 200)>>] }

\* h2 elements of a page without post articles: an h2 holds no h2
HeadingPool ==
    { [h2 |-> <<>>, a |-> <<Link(<<"/cat/">>, <<"C", "a", "t">>, 200)>>],
      [h2 |-> <<>>, a |-> <<Link(<<"/owl/">>, <<"O", "w", "l">>, 0)>>],
      [h2 |-> <<>>, a |-> <<Link(<<"/thumb/">>, <<>>, 200)>>],
      \* an anchor without href, and a heading without an anchor
      [h2 |-> <<>>, a |-> <<Link(<<>>, <<"C", "a", "t">>, 200)>>],
      [h2 |-> <<>>, a |-> NoLink] }

\* posts: soup.find_all('article', class_='post'); h2s: soup.find_all('h2'),
\* which the code reads only when there are no posts.
PostsPage(s) == [posts |-> s, h2s |-> <<>>]

HeadingsPage(s) == [posts |-> <<>>, h2s |-> s]

EmptySearchPage == [posts |-> <<>>, h2s |-> <<>>]

OkReply(page) == [status |-> HTTP_OK, page |-> page]

---------------------------------------------------------------------------
(* search_easy_drawing_guides *)

SOURCE_EASY == "Easy Drawing Guides"

\* line 59
find_articles(page) == IF page.posts # <<>> THEN page.posts ELSE page.h2s

\* lines 62-64: title_elem is the h2 or else the anchor; link_elem is the
\* h2's anchor or the anchor itself
link_elem(article) ==
    IF article.h2 # <<>> THEN article.h2[1].a ELSE article.a

\* lines 61-80 for one article: acc is [exc, results, fetched]
visit_article(article, acc) ==
    LET le == link_elem(article) IN
    IF le = <<>> \/ le[1].href = <<>> THEN acc
    ELSE
      LET title == Strip(le[1].text)
          joined == urljoin(EASY_DRAWING_GUIDES_BASE, le[1].href)
          validate_response ==
              make_request(joined.url, [status |-> le[1].status, page |-> <<>>])
          guide == [title |-> title, url |-> joined.url, source |-> SOURCE_EASY]
      IN IF joined.exc # ""
         THEN [acc EXCEPT !.exc = joined.exc]
         ELSE [acc EXCEPT
                 !.fetched = Append(@, joined.url),
                 !.results =
                     IF validate_response.exc = ""
                        /\ validate_response.status = HTTP_OK
                     THEN Append(@, guide) ELSE @]

RECURSIVE visit_articles(_, _)
visit_articles(articles, acc) ==
    IF articles = <<>> \/ acc.exc # "" THEN acc
    ELSE visit_articles(Tail(articles), visit_article(Head(articles), acc))

\* variant: the slice of line 61 left out
SliceArticlesUnbounded(articles, limit) == articles

\* line 61: articles[:limit] (limit > 0)
SliceArticles(articles, limit) == Take(articles, limit)

\* lines 53-82, the body of the try
search_try(query, limit, reply) ==
    LET response == make_request(search_url(query), reply)
        start == [exc |-> "", results |-> <<>>, fetched |-> <<search_url(query)>>]
    IN IF response.exc # "" THEN [start EXCEPT !.exc = response.exc]
       ELSE visit_articles(SliceArticles(find_articles(response.page), limit), start)

\* lines 49-85: any exception gives the empty list
search_easy_drawing_guides(query, limit, reply) ==
    LET r == search_try(query, limit, reply) IN
    IF r.exc # "" THEN [r EXCEPT !.exc = "", !.results = <<>>] ELSE r

---------------------------------------------------------------------------
(* list.sort(key=..., reverse=True) *)

\* one step of a stable insertion: x goes behind every element whose key is
\* not greater (FALSE < TRUE)
InsertByKey(sorted, x) ==
    LET n == Cardinality({i \in 1..Len(sorted) : (~sorted[i].key) \/ x.key})
    IN SubSeq(sorted, 1, n) \o <<x>> \o SubSeq(sorted, n + 1, Len(sorted))

RECURSIVE StableSortAsc(_)
StableSortAsc(s) ==
    IF s = <<>> THEN <<>>
    ELSE InsertByKey(StableSortAsc(SubSeq(s, 1, Len(s) - 1)), s[Len(s)])

\* variant: an ascending sort that is reversed afterwards
SortThenReverse(keyed) == Reverse(StableSortAsc(keyed))

\* CPython's list.sort with reverse=True: reverse, sort stably, reverse
SortReverse(keyed) == Reverse(StableSortAsc(Reverse(keyed)))

\* line 266: the key is "the lowered query occurs in the lowered title"
RelevanceKey(query, guide) == Contains(Lower(query), Lower(guide.title))

sort_by_relevance(query, guides) ==
    LET keyed == [i \in 1..Len(guides) |->
                     [key |-> RelevanceKey(query, guides[i]), val |-> guides[i]]]
        sorted == SortReverse(keyed)
    IN [i \in 1..Len(sorted) |-> sorted[i].val]

---------------------------------------------------------------------------
(* handle_search *)

\* key in arguments (the empty dict is the empty function)
HasKey(args, key) == DOMAIN args # {} /\ key \in DOMAIN args

\* arguments.get(key, default) for the keys the handlers read
GetLimit(args) == IF HasKey(args, "limit") THEN args.limit ELSE DefaultLimit

GetSource(args) == IF HasKey(args, "source") THEN args.source ELSE "both"

\* "not query": the key is absent (None) or the string is empty
QueryMissing(args) == IF HasKey(args, "query") THEN args.query = <<>> ELSE TRUE

\* variant: the else branch of lines 289-293 left out
search_blocks_without_else(query, source, guides) ==
    IF guides # <<>>
    THEN << [heading |-> "# Search Metadata", query |-> query,
             results_count |-> Len(guides), sources |-> source,
             sites |-> SOURCE_EASY],
            [heading |-> "# Drawing Guide Search Results",
             entries |-> [i \in 1..Len(guides) |->
                            [rank |-> i, title |-> guides[i].title,
                             source |-> guides[i].source, url |-> guides[i].url]]] >>
    ELSE <<>>

\* lines 271-293: the blocks of a search that did not raise
search_blocks(query, source, guides) ==
    IF guides # <<>>
    THEN << [heading |-> "# Search Metadata", query |-> query,
             results_count |-> Len(guides), sources |-> source,
             sites |-> SOURCE_EASY],
            [heading |-> "# Drawing Guide Search Results",
             entries |-> [i \in 1..Len(guides) |->
                            [rank |-> i, title |-> guides[i].title,
                             source |-> guides[i].source, url |-> guides[i].url]]] >>
    ELSE << [heading |-> "# Search Results", query |-> query,
             results_count |-> 0, sources |-> source,
             error |-> "No drawing guides found for your query."] >>

\* lines 295-300
search_error_block(query, source, exc) ==
    [heading |-> "# Search Error", query |-> query, sources |-> source,
     error |-> exc]

\* lines 247-302
handle_search(args, reply) ==
    LET nothing == [raised |-> "", results |-> <<>>, fetched |-> <<>>,
                    easy_results |-> <<>>, all_guides |-> <<>>]
    IN
    IF QueryMissing(args)
    THEN [nothing EXCEPT !.raised = "ValueError: Query parameter is required"]
    ELSE
      LET query == args.query
          limit == GetLimit(args)
          source == GetSource(args)
          found == search_easy_drawing_guides(query, limit, reply)
          sorted == sort_by_relevance(query, found.results)
          guides == Take(sorted, limit)
      IN IF found.exc # ""
         THEN [nothing EXCEPT
                 !.fetched = found.fetched,
                 !.results = <<search_error_block(query, source, found.exc)>>]
         ELSE [raised |-> "",
               results |-> search_blocks(query, source, guides),
               fetched |-> found.fetched,
               easy_results |-> found.results,
               all_guides |-> guides]

---------------------------------------------------------------------------
(* get_drawing_guide_content *)

\* lines 98-104
content_selectors ==
    <<"div.entry-content", "article", "div.content", "main", "div.post-content">>

RECURSIVE JoinLines(_)
JoinLines(lines) ==
    IF lines = <<>> THEN <<>>
    ELSE IF Len(lines) = 1 THEN lines[1]
    ELSE lines[1] \o <<"\n">> \o JoinLines(Tail(lines))

IsText(node) == node.tag = "text"

NonEmpty(s) == s # <<>>

\* lines 111-114: script and style children are dropped, every remaining
\* text node is stripped, the non-empty ones are joined by a newline
container_text(nodes) ==
    LET shown == SelectSeq(nodes, IsText)
        stripped == [i \in 1..Len(shown) |-> Strip(shown[i].s)]
    IN JoinLines(SelectSeq(stripped, NonEmpty))

\* variant: an element without visible text is passed over
RECURSIVE extract_content_with_text(_, _)
extract_content_with_text(selectors, page) ==
    IF selectors = <<>> THEN <<>>
    ELSE LET content_elem == page.containers[Head(selectors)] IN
         IF content_elem # <<>> /\ container_text(content_elem[1]) # <<>>
         THEN container_text(content_elem[1])
         ELSE extract_content_with_text(Tail(selectors), page)

\* lines 106-115: the first selector that selects an element decides
RECURSIVE extract_content(_, _)
extract_content(selectors, page) ==
    IF selectors = <<>> THEN <<>>
    ELSE LET content_elem == page.containers[Head(selectors)] IN
         IF content_elem # <<>> THEN container_text(content_elem[1])
         ELSE extract_content(Tail(selectors), page)

\* lines 94-95
extract_title(page) ==
    IF page.h1 # <<>> THEN Strip(page.h1[1])
    ELSE IF page.title # <<>> THEN Strip(page.title[1])
    ELSE <<"Unknown Title">>

\* The li elements of a page are held in document order; pos tells where an
\* li sits: "new" opens a further top-level list, "next" continues the
\* current top-level list, "sub" is an item of the list nested in the latest
\* li of the top-level list (a run of "sub" items is one nested list).
LastOfTop(items, s) ==
    IF \E j \in (s + 1)..Len(items) : items[j].pos = "new"
    THEN (CHOOSE j \in (s + 1)..Len(items) :
            /\ items[j].pos = "new"
            /\ \A k \in (s + 1)..(j - 1) : items[k].pos # "new") - 1
    ELSE Len(items)

LastOfSub(items, s) ==
    IF \E j \in (s + 1)..Len(items) : items[j].pos # "sub"
    THEN (CHOOSE j \in (s + 1)..Len(items) :
            /\ items[j].pos # "sub"
            /\ \A k \in (s + 1)..(j - 1) : items[k].pos = "sub") - 1
    ELSE Len(items)

\* a list element begins at item s: a top-level list, or a nested list
OpensList(items, s) ==
    \/ items[s].pos = "new"
    \/ items[s].pos = "sub" /\ items[s - 1].pos # "sub"

\* step_elem.find_all('li'): every li below the list, in document order
list_items(items, s) ==
    IF items[s].pos = "new" THEN s..LastOfTop(items, s) ELSE s..LastOfSub(items, s)

RECURSIVE ConcatStripped(_, _, _)
ConcatStripped(items, from, to) ==
    IF from > to THEN <<>>
    ELSE Strip(items[from].text) \o ConcatStripped(items, from + 1, to)

\* li.get_text(strip=True): the stripped text nodes below the li, joined;
\* an li of a top-level list holds the items of the list nested in it
li_text(items, i) ==
    IF items[i].pos # "sub" /\ i < Len(items) /\ items[i + 1].pos = "sub"
    THEN ConcatStripped(items, i, LastOfSub(items, i + 1))
    ELSE Strip(items[i].text)

\* lines 125 and 129
keep_step(step_text) == step_text # <<>> /\ Len(step_text) > MinStepLen

\* lines 123-126 for the items from..to of one list
RECURSIVE steps_of_list(_, _, _)
steps_of_list(items, from, to) ==
    IF from > to THEN <<>>
    ELSE (IF keep_step(li_text(items, from)) THEN <<li_text(items, from)>> ELSE <<>>)
         \o steps_of_list(items, from + 1, to)

\* lines 121-126: every ol and ul of the page in document order, nested
\* lists included (find_all is recursive)
RECURSIVE steps_of_lists(_, _)
steps_of_lists(items, s) ==
    IF s > Len(items) THEN <<>>
    ELSE (IF OpensList(items, s)
          THEN LET span == list_items(items, s) IN
               steps_of_list(items, s, s + Cardinality(span) - 1)
          ELSE <<>>)
         \o steps_of_lists(items, s + 1)

\* lines 127-130: the elements whose class matches "step"
RECURSIVE steps_of_divs(_)
steps_of_divs(divs) ==
    IF divs = <<>> THEN <<>>
    ELSE (IF keep_step(Strip(Head(divs))) THEN <<Strip(Head(divs))>> ELSE <<>>)
         \o steps_of_divs(Tail(divs))

\* lines 118-130: the class-matched elements are read only when the page
\* holds no ol and no ul at all (bare_list: a list without items)
extract_steps(page) ==
    IF page.items # <<>> \/ page.bare_list
    THEN steps_of_lists(page.items, 1)
    ELSE steps_of_divs(page.stepdivs)

\* lines 135-142: acc is [exc, images]
RECURSIVE collect_images(_, _, _)
collect_images(url, imgs, acc) ==
    IF imgs = <<>> \/ acc.exc # "" THEN acc
    ELSE LET img == Head(imgs)
             src == img.src
         IN IF src # <<>> /\ src[1] # <<>>
            THEN LET joined == urljoin(url, src[1]) IN
                 collect_images(url, Tail(imgs),
                    IF joined.exc # "" THEN [acc EXCEPT !.exc = joined.exc]
                    ELSE [acc EXCEPT !.images =
                            Append(@, [src |-> joined.url, alt |-> img.alt])])
            ELSE collect_images(url, Tail(imgs), acc)

\* variant: the slice of line 149 left out
all_images(images) == images

\* line 149: images[:5]
first_images(images) == Take(images, MaxImages)

\* lines 144-151
guide_detail(url, page, images) ==
    [title |-> extract_title(page), url |-> url,
     content |-> extract_content(content_selectors, page),
     steps |-> extract_steps(page),
     images |-> first_images(images),
     source |-> SOURCE_EASY]

\* lines 153-162
degraded_detail(url, exc) ==
    [title |-> <<"Error">>, url |-> url,
     content |-> <<"Failed to extract content: ", exc>>,
     steps |-> <<>>, images |-> <<>>, source |-> "Unknown"]

\* lines 87-162
get_drawing_guide_content(url, reply) ==
    LET response == make_request(url, reply)
        found == collect_images(url, response.page.imgs, [exc |-> "", images |-> <<>>])
    IN IF response.exc # "" THEN degraded_detail(url, response.exc)
       ELSE IF found.exc # "" THEN degraded_detail(url, found.exc)
       ELSE guide_detail(url, response.page, found.images)

---------------------------------------------------------------------------
(* handle_get_guide *)

\* "not url": the key is absent (None) or the string is empty
UrlMissing(args) == IF HasKey(args, "url") THEN args.url = <<>> ELSE TRUE

\* line 312
UrlSupported(url) == Contains(EASY_DRAWING_GUIDES_BASE, url)

\* variant: the test of line 327 left out
guide_blocks_content_always(g) ==
    << [heading |-> "# Guide Metadata", title |-> g.title, source |-> g.source,
        url |-> g.url, content_length |-> Len(g.content),
        steps_found |-> Len(g.steps), images_found |-> Len(g.images)],
       [heading |-> "# Drawing Guide Content", content |-> g.content] >>
    \o (IF g.steps # <<>>
        THEN <<[heading |-> "# Step-by-Step Instructions",
                steps |-> [i \in 1..Len(g.steps) |-> [n |-> i, text |-> g.steps[i]]]]>>
        ELSE <<>>)
    \o (IF g.images # <<>>
        THEN <<[heading |-> "# Reference Images",
                images |-> [i \in 1..Len(g.images) |->
                              [n |-> i, src |-> g.images[i].src,
                               alt |-> g.images[i].alt]]]>>
        ELSE <<>>)

\* lines 320-356
guide_blocks(g) ==
    << [heading |-> "# Guide Metadata", title |-> g.title, source |-> g.source,
        url |-> g.url, content_length |-> Len(g.content),
        steps_found |-> Len(g.steps), images_found |-> Len(g.images)] >>
    \o (IF g.content # <<>>
        THEN <<[heading |-> "# Drawing Guide Content", content |-> g.content]>>
        ELSE <<>>)
    \o (IF g.steps # <<>>
        THEN <<[heading |-> "# Step-by-Step Instructions",
                steps |-> [i \in 1..Len(g.steps) |-> [n |-> i, text |-> g.steps[i]]]]>>
        ELSE <<>>)
    \o (IF g.images # <<>>
        THEN <<[heading |-> "# Reference Images",
                images |-> [i \in 1..Len(g.images) |->
                              [n |-> i, src |-> g.images[i].src,
                               alt |-> g.images[i].alt]]]>>
        ELSE <<>>)

\* variant: the site check of lines 312-313 left out
validate_guide_url_without_site_check(args) ==
    IF UrlMissing(args) THEN "ValueError: URL parameter is required" ELSE ""

\* lines 304-313: the checks made before anything is fetched
validate_guide_url(args) ==
    IF UrlMissing(args) THEN "ValueError: URL parameter is required"
    ELSE IF ~UrlSupported(args.url) THEN "ValueError: URL must be from easydrawingguides.com"
    ELSE ""

\* lines 304-365
handle_get_guide(args, reply) ==
    LET error == validate_guide_url(args) IN
    IF error # ""
    THEN [raised |-> error, results |-> <<>>, fetched |-> <<>>,
          guide_content |-> [title |-> <<>>, url |-> <<>>, content |-> <<>>,
                             steps |-> <<>>, images |-> <<>>, source |-> ""]]
    ELSE LET g == get_drawing_guide_content(args.url, reply) IN
         [raised |-> "", results |-> guide_blocks(g), fetched |-> <<args.url>>,
          guide_content |-> g]

---------------------------------------------------------------------------
(* handle_list_categories *)

\* lines 164-172
get_categories ==
    [src \in {SOURCE_EASY} |->
        <<"Animals", "People", "Plants", "Cartoons", "Objects",
          "Anime", "Video Games", "Flowers", "Comics">>]

\* lines 367-408
handle_list_categories(args) ==
    LET categories == get_categories IN
    << [heading |-> "# Drawing Categories",
        total_sources |-> Cardinality(DOMAIN categories)],
       [heading |-> "# Available Drawing Categories",
        categories |-> categories,
        popular |-> <<"Animals", "Cartoon Characters", "Anime Characters",
                      "Flowers", "Objects", "People">>] >>

---------------------------------------------------------------------------
(* Guide pages (the environment of get_guide) *)

Selectors == {content_selectors[i] : i \in 1..Len(content_selectors)}

\* what a selector finds: nothing, an element without visible text, or an
\* element with two lines of text around a style element
ContainerOf(sel, kind) ==
    CASE kind = "absent" -> SubSeq(<< <<[tag |-> "text", s |-> <<>>]>> >>, 1, 0)
      [] kind = "empty" ->
            << <<[tag |-> "script", s |-> <<"var x;">>],
                 [tag |-> "text", s |-> <<" ", "\n">>]>> >>
      [] kind = "text" ->
            << <<[tag |-> "text", s |-> <<" ", sel, "\n">>],
                 [tag |-> "style", s |-> <<"p {}">>],
                 [tag |-> "text", s |-> <<"body">>]>> >>

ContainersOf(kinds) == [sel \in Selectors |-> ContainerOf(sel, kinds[sel])]

NoContainers == ContainersOf([sel \in Selectors |-> "absent"])

ItemChars == <<"a", "b", "c", "d", "e", "f", "g", "h">>

\* texts around the length the step filter tests: 2 characters, exactly
\* MinStepLen characters inside white space, MinStepLen + 1 characters
TextOfKind(ch, kind) ==
    CASE kind = "short" -> Rep(ch, 2)
      [] kind = "edge" -> <<" ">> \o Rep(ch, MinStepLen) \o <<"\n">>
      [] kind = "long" -> Rep(ch, MinStepLen + 1)

TextKinds == {"short", "edge", "long"}

PosKinds == {"new", "next", "sub"}

\* the li elements described by f: f[i] is the place and the text of item i
ItemsOf(f) ==
    [i \in DOMAIN f |-> [pos |-> f[i][1], text |-> TextOfKind(ItemChars[i], f[i][2])]]

DivChars == <<"p", "q", "r", "s", "t", "u">>

StepDivsOf(f) == [i \in DOMAIN f |-> TextOfKind(DivChars[i], f[i])]

ImgNames == <<"1.png", "2.png", "3.png", "4.png", "5.png", "6.png", "7.png", "8.png">>

\* an img element: its src attribute (absent, empty, rooted, absolute or
\* malformed) and its alt attribute ('' when absent)
ImgOf(i, kind) ==
    CASE kind = "none" -> [src |-> SubSeq(<< <<"x">> >>, 1, 0), alt |-> <<"logo">>]
      [] kind = "empty" -> [src |-> << SubSeq(<<"x">>, 1, 0) >>, alt |-> <<>>]
      [] kind = "rel" -> [src |-> << <<"/img/", ImgNames[i]>> >>, alt |-> <<>>]
      [] kind = "abs" -> [src |-> << <<"https://", "cdn.example.com", "/", ImgNames[i]>> >>,
                          alt |-> <<"cat">>]
      [] kind = "bad" -> [src |-> << <<"//[", ImgNames[i]>> >>, alt |-> <<>>]

ImgKinds == {"none", "empty", "rel", "abs", "bad"}

ImgsOf(f) == [i \in DOMAIN f |-> ImgOf(i, f[i])]

NoText == SubSeq(<< <<"x">> >>, 1, 0)

EmptyPage ==
    [h1 |-> NoText, title |-> NoText, containers |-> NoContainers,
     items |-> <<>>, bare_list |-> FALSE, stepdivs |-> <<>>, imgs |-> <<>>]

BasePage ==
    [EmptyPage EXCEPT !.h1 = << <<" ", "How to Draw a Cat", "\n">> >>,
                      !.title = << <<"Cat - Easy Drawing Guides">> >>]

TitlePages ==
    { [EmptyPage EXCEPT !.h1 = h, !.title = t] :
        h \in {NoText, << <<" ", "How to Draw a Cat", "\n">> >>},
        t \in {NoText, << <<"Cat - Easy Drawing Guides">> >>} }

ContainerKinds == {"absent", "empty", "text"}

\* pages on which body, steps and images are each present or not
MixedPages ==
    { [p EXCEPT !.containers = c, !.items = it, !.imgs = im] :
        p \in TitlePages,
        c \in { NoContainers,
                ContainersOf([sel \in Selectors |->
                                IF sel = "article" THEN "text" ELSE "absent"]),
                ContainersOf([sel \in Selectors |->
                                IF sel = "main" THEN "empty" ELSE "absent"]) },
        it \in { <<>>, <<[pos |-> "new", text |-> TextOfKind("a", "long")]>> },
        im \in { <<>>, <<ImgOf(1, "rel")>>, <<ImgOf(1, "bad")>> } }

FailedReplies(page) == {[status |-> s, page |-> page] : s \in {0, 404}}

GuideReplies ==
    {OkReply(p) : p \in MixedPages}
    \cup FailedReplies(EmptyPage) \cup {[status |-> 204, page |-> EmptyPage]}

GuideUrl == EASY_DRAWING_GUIDES_BASE \o <<"/how-to-draw-a-cat/">>

GetGuideArguments ==
    { <<>>,
      [url |-> <<>>],
      [url |-> <<"https://", "example.com", "/x">>],
      [url |-> <<"http://", "easydrawingguides.com", "/how-to-draw-a-cat/">>],
      [url |-> <<"https://", "example.com", "/?next=", "https://",
                 "easydrawingguides.com", "/x">>],
      [url |-> GuideUrl] }

---------------------------------------------------------------------------
(* Tool calls *)

Queries == { <<>>, <<"c", "a", "t">>, <<"O", "W">> }

Limits == SchemaMinLimit..Min(MaxLimit, SchemaMaxLimit)

SearchArguments ==
    { <<>> }
    \cup {[query |-> q] : q \in Queries}
    \cup {[query |-> q, limit |-> l] : q \in Queries, l \in Limits}
    \cup {[query |-> q, source |-> "easy"] : q \in Queries}

NoReply == [status |-> 0, page |-> <<>>]

NoGuide == [title |-> <<>>, url |-> <<>>, content |-> <<>>, steps |-> <<>>,
            images |-> <<>>, source |-> ""]

Init ==
    /\ pc = "idle"
    /\ name = ""
    /\ arguments = <<>>
    /\ web = NoReply
    /\ fetched = <<>>
    /\ easy_results = <<>>
    /\ all_guides = <<>>
    /\ guide_content = NoGuide
    /\ results = <<>>
    /\ raised = ""

\* handle_call_tool("search", args), the site answering with reply
Search(args, reply) ==
    LET r == handle_search(args, reply) IN
    /\ pc' = "done"
    /\ name' = "search"
    /\ arguments' = args
    /\ web' = reply
    /\ fetched' = r.fetched
    /\ easy_results' = r.easy_results
    /\ all_guides' = r.all_guides
    /\ results' = r.results
    /\ raised' = r.raised
    /\ UNCHANGED guide_content

CallSearch ==
    /\ pc = "idle"
    /\ \E args \in SearchArguments :
        \/ /\ ~QueryMissing(args)
           /\ \E k \in 0..MaxArticles : \E s \in [1..k -> ArticlePool] :
                Search(args, OkReply(PostsPage(s)))
        \/ /\ ~QueryMissing(args)
           /\ \E k \in 1..MaxArticles : \E s \in [1..k -> HeadingPool] :
                Search(args, OkReply(HeadingsPage(s)))
        \/ /\ ~QueryMissing(args)
           /\ \E reply \in FailedReplies(EmptySearchPage) : Search(args, reply)
        \/ /\ QueryMissing(args)
           /\ Search(args, NoReply)

\* handle_call_tool("get_guide", args), the site answering with reply
GetGuide(args, reply) ==
    LET r == handle_get_guide(args, reply) IN
    /\ pc' = "done"
    /\ name' = "get_guide"
    /\ arguments' = args
    /\ web' = reply
    /\ fetched' = r.fetched
    /\ guide_content' = r.guide_content
    /\ results' = r.results
    /\ raised' = r.raised
    /\ UNCHANGED <<easy_results, all_guides>>

CallGetGuide ==
    /\ pc = "idle"
    /\ \E args \in GetGuideArguments :
        \/ /\ validate_guide_url(args) = ""
           /\ \E reply \in GuideReplies : GetGuide(args, reply)
        \/ /\ validate_guide_url(args) # ""
           /\ GetGuide(args, NoReply)

\* get_guide on the pages that vary the body containers
ExtractBody ==
    /\ pc = "idle"
    /\ \E kinds \in [Selectors -> ContainerKinds] :
        GetGuide([url |-> GuideUrl],
                 OkReply([BasePage EXCEPT !.containers = ContainersOf(kinds)]))

\* get_guide on the pages that vary the lists and the step elements
ExtractSteps ==
    /\ pc = "idle"
    /\ \E k \in 0..MaxItems, m \in 0..MaxStepDivs, b \in BOOLEAN :
      \E f \in [1..k -> PosKinds \X TextKinds], d \in [1..m -> TextKinds] :
        /\ IF k = 0 THEN TRUE ELSE f[1][1] = "new"
        /\ IF k = 0 \/ m = 0 THEN TRUE ELSE (m = 1 /\ d[1] = "long")
        /\ GetGuide([url |-> GuideUrl],
                    OkReply([BasePage EXCEPT !.items = ItemsOf(f), !.bare_list = b,
                                             !.stepdivs = StepDivsOf(d)]))

\* get_guide on the pages that vary the img elements
ExtractImages ==
    /\ pc = "idle"
    /\ \E k \in 0..MaxImgs : \E f \in [1..k -> ImgKinds] :
        GetGuide([url |-> GuideUrl], OkReply([BasePage EXCEPT !.imgs = ImgsOf(f)]))

\* get_guide when the page cannot be fetched
ExtractFailed ==
    /\ pc = "idle"
    /\ \E reply \in FailedReplies(EmptyPage) : GetGuide([url |-> GuideUrl], reply)

\* handle_call_tool("list_categories", {})
CallListCategories ==
    /\ pc = "idle"
    /\ pc' = "done"
    /\ name' = "list_categories"
    /\ results' = handle_list_categories(<<>>)
    /\ UNCHANGED <<arguments, web, fetched, easy_results, all_guides,
                   guide_content, raised>>

\* handle_call_tool with a name that is none of the three (lines 244-245)
CallUnknown ==
    /\ pc = "idle"
    /\ \E n \in {"get_guides", "list"} :
         /\ name' = n
         /\ raised' = "ValueError: Unknown tool"
    /\ pc' = "done"
    /\ UNCHANGED <<arguments, web, fetched, easy_results, all_guides,
                   guide_content, results>>

\* the reply (or the error) goes back to the client and the server waits for
\* the next call: nothing of a call outlives it
Return ==
    /\ pc = "done"
    /\ pc' = "idle"
    /\ name' = ""
    /\ arguments' = <<>>
    /\ web' = NoReply
    /\ fetched' = <<>>
    /\ easy_results' = <<>>
    /\ all_guides' = <<>>
    /\ guide_content' = NoGuide
    /\ results' = <<>>
    /\ raised' = ""

Next ==
    \/ CallSearch
    \/ CallGetGuide
    \/ CallListCategories
    \/ CallUnknown
    \/ Return

Spec == Init /\ [][Next]_vars

\* get_guide calls alone, over the pages that vary one part of the page at a
\* time
NextExtract == ExtractBody \/ ExtractSteps \/ ExtractImages \/ ExtractFailed \/ Return

SpecExtract == Init /\ [][NextExtract]_vars

---------------------------------------------------------------------------
(* Properties *)

Handled(tool) == pc = "done" /\ name = tool

QueryGiven == HasKey(arguments, "query") /\ arguments.query # <<>>

UrlGiven == HasKey(arguments, "url") /\ arguments.url # <<>>

\* C1: a get_guide call whose url is absent or empty fails with the
\* missing-argument error, one whose url does not hold the site's hostname
\* fails with the unsupported-source error, and neither fetches anything.
C1_InvalidUrlFailsBeforeAnyFetch ==
    Handled("get_guide") =>
        /\ ~UrlGiven =>
             /\ raised = "ValueError: URL parameter is required"
             /\ fetched = <<>>
        /\ (UrlGiven /\ ~Contains(Host, arguments.url)) =>
             /\ raised = "ValueError: URL must be from easydrawingguides.com"
             /\ fetched = <<>>

C1_Witness ==
    /\ Handled("get_guide")
    /\ UrlGiven
    /\ ~Contains(Host, arguments.url)
    /\ raised = "ValueError: URL must be from easydrawingguides.com"
    /\ fetched = <<>>
    /\ results = <<>>

\* the pre-flight checks of the three tools passed
PassedValidation ==
    \/ Handled("search") /\ QueryGiven
    \/ Handled("get_guide") /\ UrlGiven
         /\ Contains(EASY_DRAWING_GUIDES_BASE, arguments.url)
    \/ Handled("list_categories")

\* C2: once the pre-flight checks of search, get_guide or list_categories
\* have passed, the call returns a non-empty list of text blocks and raises
\* nothing, whatever the fetches and the parsing give.
C2_ValidatedCallReturnsBlocks ==
    PassedValidation =>
        /\ raised = ""
        /\ Len(results) >= 1
        /\ \A i \in 1..Len(results) : "heading" \in DOMAIN results[i]

C2_Witness ==
    /\ Handled("search")
    /\ QueryGiven
    /\ web.status = 404
    /\ fetched # <<>>
    /\ raised = ""
    /\ Len(results) = 1
    /\ results[1].results_count = 0

\* C3: for a non-empty query and a limit of 1..20, search_easy_drawing_guides
\* returns at most limit summaries, the formatted list holds at most limit
\* entries, and the Results Count it reports is the number of entries.
C3_AtMostLimitSummaries ==
    (Handled("search") /\ QueryGiven /\ GetLimit(arguments) \in 1..20) =>
        /\ Len(easy_results) <= GetLimit(arguments)
        /\ Len(all_guides) <= GetLimit(arguments)
        /\ IF all_guides # <<>>
           THEN /\ Len(results) = 2
                /\ results[1].results_count = Len(results[2].entries)
                /\ Len(results[2].entries) = Len(all_guides)
           ELSE /\ Len(results) = 1
                /\ results[1].results_count = 0

C3_Witness ==
    /\ Handled("search")
    /\ QueryGiven
    /\ web.status = 200
    /\ Len(find_articles(web.page)) > GetLimit(arguments)
    /\ Len(easy_results) = GetLimit(arguments)
    /\ results[1].results_count = GetLimit(arguments)

\* the title holds the query, letter case ignored
TitleHasQuery(guide) == Contains(Lower(arguments.query), Lower(guide.title))

TitleLacksQuery(guide) == ~TitleHasQuery(guide)

\* C4: the list after the relevance sort is the collected summaries whose
\* title holds the query (case ignored), in their collected order, followed
\* by the other collected summaries, in their collected order.
C4_SortIsStablePartition ==
    (Handled("search") /\ QueryGiven) =>
        all_guides = SelectSeq(easy_results, TitleHasQuery)
                     \o SelectSeq(easy_results, TitleLacksQuery)

C4_Witness ==
    /\ Handled("search")
    /\ QueryGiven
    /\ Len(easy_results) = 3
    /\ TitleLacksQuery(easy_results[1])
    /\ TitleHasQuery(easy_results[2])
    /\ TitleHasQuery(easy_results[3])
    /\ easy_results[2] # easy_results[3]
    /\ all_guides = <<easy_results[2], easy_results[3], easy_results[1]>>

\* a result container that yields a candidate link, and one whose link
\* answers 200 when fetched
IsCandidate(article) ==
    /\ link_elem(article) # <<>>
    /\ link_elem(article)[1].href # <<>>
    /\ urljoin(EASY_DRAWING_GUIDES_BASE, link_elem(article)[1].href).exc = ""

PassesValidation(article) == IsCandidate(article) /\ link_elem(article)[1].status = 200

\* C5: when the search page holds more candidate links than limit and some
\* candidate fails validation, the result is the candidates that pass
\* validation, capped at limit (as many as pass, or limit if more pass).
C5_ValidatedCandidatesCappedAtLimit ==
    (/\ Handled("search") /\ QueryGiven /\ web.status = 200
     /\ \A i \in 1..Len(find_articles(web.page)) : IsCandidate(find_articles(web.page)[i])
     /\ Len(find_articles(web.page)) > GetLimit(arguments)
     /\ \E i \in 1..Len(find_articles(web.page)) :
            ~PassesValidation(find_articles(web.page)[i]))
    => Len(all_guides) =
         Min(GetLimit(arguments),
             Len(SelectSeq(find_articles(web.page), PassesValidation)))

\* C9: every summary search returns has a non-empty title.
C9_SummariesHaveTitles ==
    Handled("search") =>
        /\ \A i \in 1..Len(easy_results) : easy_results[i].title # <<>>
        /\ \A i \in 1..Len(all_guides) : all_guides[i].title # <<>>

\* the place of a block in the order the formatter gives
BlockRank(block) ==
    CASE block.heading = "# Guide Metadata" -> 1
      [] block.heading = "# Drawing Guide Content" -> 2
      [] block.heading = "# Step-by-Step Instructions" -> 3
      [] block.heading = "# Reference Images" -> 4
      [] OTHER -> 0

HasBlock(rank) == \E i \in 1..Len(results) : BlockRank(results[i]) = rank

\* metadata first, then blocks in the order content, steps, images, the steps
\* block and the images block present exactly when their list is non-empty
GuideBlocksInOrder ==
    /\ Len(results) >= 1
    /\ BlockRank(results[1]) = 1
    /\ \A i \in 1..Len(results) : \A j \in 1..Len(results) :
          i < j => BlockRank(results[i]) < BlockRank(results[j])
    /\ HasBlock(3) <=> guide_content.steps # <<>>
    /\ HasBlock(4) <=> guide_content.images # <<>>

\* C6 as stated: the blocks of a validated get_guide call are metadata,
\* content, steps, images in this order, metadata always first, the content
\* block always second, steps and images present exactly when non-empty.
C6_ContentBlockAlwaysSecond ==
    (Handled("get_guide") /\ raised = "") =>
        /\ GuideBlocksInOrder
        /\ Len(results) >= 2
        /\ BlockRank(results[2]) = 2

\* C6 amended: as above, but the content block follows the metadata block
\* exactly when the extracted content is non-empty (it is left out when the
\* content is the empty string).
C6_BlocksInOrderWhenPresent ==
    (Handled("get_guide") /\ raised = "") =>
        /\ GuideBlocksInOrder
        /\ HasBlock(2) <=> guide_content.content # <<>>

C6_Witness ==
    /\ Handled("get_guide")
    /\ raised = ""
    /\ guide_content.content = <<>>
    /\ guide_content.steps # <<>>
    /\ guide_content.images # <<>>
    /\ Len(results) = 3
    /\ BlockRank(results[2]) = 3
    /\ BlockRank(results[3]) = 4

\* the page of a get_guide call was fetched and parsed to the end
Extracted ==
    /\ Handled("get_guide")
    /\ raised = ""
    /\ web.status = 200
    /\ \A i \in 1..Len(web.page.imgs) :
          LET src == web.page.imgs[i].src IN
          (src # <<>> /\ src[1] # <<>>) => Head(src[1]) # "//["

\* the candidate steps of a page in document order, each with its trimmed
\* text: the list items, or without any list the step-class elements
CandidateSteps(page) ==
    IF page.items # <<>> \/ page.bare_list
    THEN [i \in 1..Len(page.items) |-> li_text(page.items, i)]
    ELSE [i \in 1..Len(page.stepdivs) |-> Strip(page.stepdivs[i])]

LongerThanTen(text) == Len(text) > 10

\* C7: every step returned has trimmed text longer than 10 characters, a
\* candidate is kept exactly when its trimmed text is longer than 10, and the
\* kept steps are the kept candidates in document order.
C7_StepsAreLongCandidatesInOrder ==
    Extracted =>
        /\ \A i \in 1..Len(guide_content.steps) : Len(guide_content.steps[i]) > 10
        /\ guide_content.steps = SelectSeq(CandidateSteps(web.page), LongerThanTen)

HasSrc(img) == img.src # <<>> /\ img.src[1] # <<>>

\* C8: images holds at most 5 entries, the first min(5, n) of the n img
\* elements with a non-empty src, in document order (same file, same alt);
\* when the extraction fails it is empty.
C8_FirstFiveImagesWithSrc ==
    (Handled("get_guide") /\ raised = "") =>
        LET withSrc == SelectSeq(web.page.imgs, HasSrc)
            images == guide_content.images
        IN /\ Len(images) <= 5
           /\ IF Extracted
              THEN /\ Len(images) = Min(5, Len(withSrc))
                   /\ \A i \in 1..Len(images) :
                        /\ images[i].src[Len(images[i].src)]
                             = withSrc[i].src[1][Len(withSrc[i].src[1])]
                        /\ IsAbsolute(images[i].src)
                        /\ images[i].alt = withSrc[i].alt
              ELSE images = <<>>

C8_Witness ==
    /\ Extracted
    /\ Len(SelectSeq(web.page.imgs, HasSrc)) = 6
    /\ Len(guide_content.images) = 5
    /\ guide_content.images[5].src = <<"https://", "easydrawingguides.com", "/img/", "5.png">>

\* what kind of element a selector finds on the fetched page
Finds(i, kind) ==
    web.page.containers[content_selectors[i]] = ContainerOf(content_selectors[i], kind)

\* the text of the element selector i finds
TextFound(i) ==
    IF Finds(i, "text") THEN <<content_selectors[i], "\n", "body">> ELSE <<>>

FirstOf(S) == CHOOSE i \in S : \A j \in S : i <= j

\* C10 as stated: the body text is the text of the first selector, in probe
\* order, whose match is non-empty; it is empty only when no selector gives
\* such a match.
C10_FirstNonEmptyMatch ==
    Extracted =>
        LET withText == {i \in 1..Len(content_selectors) : Finds(i, "text")}
        IN guide_content.content =
             IF withText = {} THEN <<>> ELSE TextFound(FirstOf(withText))

\* C10 amended: the body text is the text of the first selector, in probe
\* order, that selects an element, with or without visible text; it is empty
\* when no selector selects an element or when that first element has no
\* visible text, and extract does not raise.
C10_FirstMatchedElement ==
    Extracted =>
        LET matched == {i \in 1..Len(content_selectors) : ~Finds(i, "absent")}
        IN /\ guide_content.content =
                IF matched = {} THEN <<>> ELSE TextFound(FirstOf(matched))
           /\ guide_content.source = SOURCE_EASY

C10_Witness ==
    /\ Extracted
    /\ Finds(1, "empty")
    /\ Finds(2, "text")
    /\ guide_content.content = <<>>
    /\ guide_content.source = SOURCE_EASY

===========================================================================
